---- MODULE Spec2Model ----
(***************************************************************************)
(* A model of src/spec.py: the Valid/Invalid result algebra (Validated)    *)
(* and the specification variants Predicate, Member, Type, Alt, Chain,     *)
(* All, Keys and Key.                                                      *)
(*                                                                         *)
(* Python values are tagged records [k |-> <type name>, v |-> <content>].  *)
(* Every evaluation yields an outcome: whether it raised, the value it     *)
(* returned (or the exception it raised), and the calls it made, in        *)
(* order, to callables: the functions it was handed, prelude's, its own    *)
(* lambdas and the methods of child specifications.                        *)
(***************************************************************************)
EXTENDS Integers, Sequences, FiniteSets, TLC

VARIABLES pc, inp, out

vars == <<pc, inp, out>>

(***************************************************************************)
(* Bounds of the model.                                                    *)
(***************************************************************************)
MaxInt == 1
MaxLen == 3
MaxListLen == 1
MaxNodes == 4

(***************************************************************************)
(* Python values.                                                          *)
(***************************************************************************)
PyInt(n) == [k |-> "int", v |-> n]
PyStr(s) == [k |-> "str", v |-> s]
PyBool(b) == [k |-> "bool", v |-> b]
PyNone == [k |-> "none", v |-> 0]
PyList(s) == [k |-> "list", v |-> s]
PyTuple(s) == [k |-> "tuple", v |-> s]
\* a dict is a function from its keys (Python values) to its values
PyDict(f) == [k |-> "dict", v |-> f]
Exc(name) == [k |-> "exception", v |-> name]

\* class Valid(tuple, Validated): a 1-tuple holding the payload
Valid(x) == [k |-> "Valid", v |-> <<x>>]

\* class Invalid(tuple, Validated): a 1-tuple holding the payload
Invalid(e) == [k |-> "Invalid", v |-> <<e>>]

\* class SpecError(Exception): the rejected value and the rejecting spec
SpecError(value, spec) == [k |-> "SpecError", value |-> value, spec |-> spec]

(***************************************************************************)
(* Outcomes of an evaluation.                                              *)
(***************************************************************************)
Ret(x) == [raised |-> FALSE, val |-> x, calls |-> <<>>]
Raise(name) == [raised |-> TRUE, val |-> Exc(name), calls |-> <<>>]

\* Sequential evaluation: first o, then, unless o raised, r (which may use
\* o's value); the calls add up.
AndThen(o, r) ==
  IF o.raised THEN o
  ELSE [raised |-> r.raised, val |-> r.val, calls |-> o.calls \o r.calls]

NoOutcome == [raised |-> FALSE, val |-> PyNone, calls |-> <<>>]

(***************************************************************************)
(* Callables: the functions a caller hands to the result algebra, the      *)
(* functions of prelude, the lambdas of the source (each a closure over    *)
(* the variables it uses) and the bound methods of a spec.                 *)
(***************************************************************************)
Fn(name) == [k |-> "function", v |-> name]
Compose(g, f) == [k |-> "compose", g |-> g, f |-> f]
\* prelude.const(value)
Const(value) == [k |-> "const", v |-> value]
\* lambda x: Valid(f(x))
ValidOf(f) == [k |-> "valid_of", f |-> f]
\* lambda e: Invalid(f(e))
InvalidOf(f) == [k |-> "invalid_of", f |-> f]
\* lambda f: other.map(f)
MapOnto(other) == [k |-> "map_onto", other |-> other]
\* lambda e: other.verify(prelude.const(self), lambda e: Invalid(e + e))
ApInvalid(self, other) == [k |-> "ap_invalid", self |-> self, other |-> other]
\* lambda e: Invalid(e + e)
InvalidSum == [k |-> "invalid_sum"]
\* lambda e: prelude.throw(f(e))
ThrowOf(f) == [k |-> "throw_of", f |-> f]
\* lambda x: (tag, x), lambda x: (self.key, x)
PairWith(first) == [k |-> "pair_with", first |-> first]
\* cls.is_valid
IsValid == [k |-> "is_valid"]
ConformOf(spec) == [k |-> "bound_conform", spec |-> spec]
ValidateOf(spec) == [k |-> "bound_validate", spec |-> spec]

\* The bodies of the caller's functions, on integer payloads.
FnBody(name, x) ==
  CASE name = "identity" -> x
    [] name = "succ" -> PyInt(x.v + 1)
    [] name = "twice" -> PyInt(2 * x.v)
    [] name = "ok" -> Valid(x)
    [] name = "ok_succ" -> Valid(PyInt(x.v + 1))
    [] name = "fail" -> Invalid(x)

\* Python's a + b on the payloads of the model.
PyAdd(a, b) ==
  IF a.k = "int" /\ b.k = "int" THEN Ret(PyInt(a.v + b.v))
  ELSE IF a.k = "list" /\ b.k = "list" THEN Ret(PyList(a.v \o b.v))
  ELSE IF a.k = "tuple" /\ b.k = "tuple" THEN Ret(PyTuple(a.v \o b.v))
  ELSE Raise("TypeError")

RECURSIVE Call(_, _)
RECURSIVE conform(_, _)
RECURSIVE validate(_, _)

(***************************************************************************)
(* class Validated                                                         *)
(***************************************************************************)
verify(self, valid, invalid) ==
  IF self.k = "Valid" THEN Call(valid, self.v[1])
  ELSE IF self.k = "Invalid" THEN Call(invalid, self.v[1])
  ELSE Raise("TypeError")

is_valid(self) == verify(self, Const(PyBool(TRUE)), Const(PyBool(FALSE)))

is_invalid(self) == verify(self, Const(PyBool(FALSE)), Const(PyBool(TRUE)))

\* A then that does not short-circuit: f is applied to the error as well.
then_applies_on_invalid(self, f) == verify(self, f, f)

then(self, f) == verify(self, f, Const(self))

\* A map that maps the error payload as well.
map_maps_error(self, f) == verify(self, ValidOf(f), InvalidOf(f))

map(self, f) == verify(self, ValidOf(f), Const(self))

catch(self, f) == verify(self, Const(self), f)

map_error(self, f) == verify(self, Const(self), InvalidOf(f))

ap(self, other) == verify(self, MapOnto(other), ApInvalid(self, other))

throw(self, f) == verify(self, Const(self), ThrowOf(f))

\* A call as recorded: what was called, on what, and what came back. The
\* calls made inside a lambda are the caller's own; those made inside a
\* spec's method are that spec's.
Called(f, x, r) ==
  [raised |-> r.raised, val |-> r.val,
   calls |-> <<[fn |-> f, arg |-> x, raised |-> r.raised, res |-> r.val]>>
             \o (IF f.k \in {"bound_conform", "bound_validate"} THEN <<>>
                 ELSE r.calls)]

\* f(x)
Call(f, x) ==
  Called(f, x,
    CASE f.k = "function" -> Ret(FnBody(f.v, x))
      [] f.k = "compose" -> Ret(FnBody(f.g.v, FnBody(f.f.v, x)))
      [] f.k = "const" -> Ret(f.v)
      [] f.k = "valid_of" ->
           LET y == Call(f.f, x) IN AndThen(y, Ret(Valid(y.val)))
      [] f.k = "invalid_of" ->
           LET y == Call(f.f, x) IN AndThen(y, Ret(Invalid(y.val)))
      [] f.k = "map_onto" -> map(f.other, x)
      \* x, the payload of self, is not used: the inner lambda's e hides it
      [] f.k = "ap_invalid" -> verify(f.other, Const(f.self), InvalidSum)
      [] f.k = "invalid_sum" ->
           LET sum == PyAdd(x, x) IN AndThen(sum, Ret(Invalid(sum.val)))
      [] f.k = "throw_of" ->
           LET y == Call(f.f, x)
           IN AndThen(y, [raised |-> TRUE, val |-> y.val, calls |-> <<>>])
      [] f.k = "pair_with" -> Ret(PyTuple(<<f.first, x>>))
      [] f.k = "is_valid" -> is_valid(x)
      [] f.k = "bound_conform" -> conform(f.spec, x))

\* spec.validate(x)
CallValidate(spec, x) == Called(ValidateOf(spec), x, validate(spec, x))

\* prelude.sep_by: the elements that satisfy pred, and those that do not,
\* each in the order of the sequence.
sep_by(pred, seq) ==
  <<SelectSeq(seq, LAMBDA x : Call(pred, x).val.v),
    SelectSeq(seq, LAMBDA x : ~Call(pred, x).val.v)>>

\* op.itemgetter(0) mapped over a list of results
Payloads(rs) == PyList([i \in 1..Len(rs) |-> rs[i].v[1]])

\* A collect whose failure carries the payloads of all the elements.
collect_keeps_valid(validated) ==
  LET parts == sep_by(IsValid, validated)
      vals == parts[1]
      invs == parts[2]
  IN IF Len(invs) > 0
     THEN Ret(Invalid(Payloads(validated)))
     ELSE Ret(Valid(Payloads(vals)))

collect(validated) ==
  LET parts == sep_by(IsValid, validated)
      vals == parts[1]
      invs == parts[2]
  IN IF Len(invs) > 0
     THEN Ret(Invalid(Payloads(invs)))
     ELSE Ret(Valid(Payloads(vals)))

wrap(valid, value) == IF valid THEN Valid(value) ELSE Invalid(value)

(***************************************************************************)
(* Specification nodes: the fields each constructor stores.                *)
(***************************************************************************)
Predicate(pred) == [type |-> "Predicate", pred |-> pred]
Member(values) == [type |-> "Member", values |-> values]
Type(type) == [type |-> "Type", of |-> type]
Alt(tagged_specs) == [type |-> "Alt", tagged_specs |-> tagged_specs]
Chain(specs) == [type |-> "Chain", specs |-> specs]
All(specs) == [type |-> "All", specs |-> specs]
Keys(required, optional, strict) ==
  [type |-> "Keys", required |-> required, optional |-> optional,
   strict |-> strict]
Key(key, spec, default) ==
  [type |-> "Key", key |-> key, spec |-> spec, default |-> default]

(***************************************************************************)
(* Python's built-in operations on the values of the model.                *)
(***************************************************************************)
RECURSIVE Hashable(_)
Hashable(x) ==
  CASE x.k \in {"list", "dict"} -> FALSE
    [] x.k = "tuple" -> \A i \in 1..Len(x.v) : Hashable(x.v[i])
    [] OTHER -> TRUE

\* value[key]
GetItem(value, key) ==
  CASE value.k = "dict" ->
         IF ~Hashable(key) THEN Raise("TypeError")
         ELSE IF key \in DOMAIN value.v THEN Ret(value.v[key])
         ELSE Raise("KeyError")
    [] value.k \in {"list", "tuple"} ->
         IF key.k # "int" THEN Raise("TypeError")
         ELSE IF key.v >= -Len(value.v) /\ key.v < 0
              THEN Ret(value.v[Len(value.v) + key.v + 1])
         ELSE IF key.v >= 0 /\ key.v < Len(value.v)
              THEN Ret(value.v[key.v + 1])
         ELSE Raise("IndexError")
    [] value.k = "str" ->
         \* the strings of the model have one character
         IF key.k # "int" THEN Raise("TypeError")
         ELSE IF key.v \in {0, -1} THEN Ret(value)
         ELSE Raise("IndexError")
    [] OTHER -> Raise("TypeError")

\* key in value
Contains(value, key) ==
  CASE value.k = "dict" ->
         IF ~Hashable(key) THEN Raise("TypeError")
         ELSE Ret(PyBool(key \in DOMAIN value.v))
    [] value.k \in {"list", "tuple"} ->
         Ret(PyBool(\E i \in 1..Len(value.v) : value.v[i] = key))
    [] value.k = "str" ->
         IF key.k # "str" THEN Raise("TypeError")
         ELSE Ret(PyBool(key = value))
    [] OTHER -> Raise("TypeError")

\* value.keys()
KeysOf(value) ==
  IF value.k = "dict" THEN Ret(DOMAIN value.v) ELSE Raise("AttributeError")

(***************************************************************************)
(* class Predicate, and Member, Type, All, which are Predicates with a     *)
(* pred of their own.                                                      *)
(***************************************************************************)
\* The caller's predicates.
NamedPred(name, value) ==
  CASE name = "is_zero" -> value = PyInt(0)

\* all(spec.validate(x) for spec in specs): stops at the first False
RECURSIVE AllFrom(_, _, _)
AllFrom(specs, i, x) ==
  IF i > Len(specs) THEN Ret(PyBool(TRUE))
  ELSE LET b == CallValidate(specs[i], x)
       IN AndThen(b, IF b.val.v THEN AllFrom(specs, i + 1, x)
                     ELSE Ret(PyBool(FALSE)))

\* self.pred(value)
pred(self, value) ==
  CASE self.type = "Predicate" -> Ret(PyBool(NamedPred(self.pred, value)))
    [] self.type = "Member" ->
         IF Hashable(value) THEN Ret(PyBool(value \in self.values))
         ELSE Raise("TypeError")
    [] self.type = "Type" -> Ret(PyBool(value.k = self.of))
    [] self.type = "All" -> AllFrom(self.specs, 1, value)

Predicate_conform(self, value) ==
  LET b == pred(self, value)
  IN AndThen(b, IF b.val.v THEN Ret(Valid(value))
                ELSE Ret(Invalid(SpecError(value, self))))

Predicate_validate(self, value) ==
  LET b == pred(self, value)
  IN AndThen(b, Ret(PyBool(b.val.v)))

(***************************************************************************)
(* class Alt                                                               *)
(***************************************************************************)
\* the for loop of Alt.conform from branch i on, and its else clause
RECURSIVE AltFrom(_, _, _)
\* An Alt whose lambda sees the tag of the last branch.
AltFrom_last_tag(self, value, i) ==
  IF i > Len(self.tagged_specs) THEN Ret(Invalid(SpecError(value, self)))
  ELSE LET tag == self.tagged_specs[Len(self.tagged_specs)][1]
           spec == self.tagged_specs[i][2]
           c == Call(ConformOf(spec), value)
           res == map(c.val, PairWith(tag))
           ok == is_valid(res.val)
       IN AndThen(c, AndThen(res, AndThen(ok,
            IF ok.val.v THEN Ret(res.val)
            ELSE AltFrom(self, value, i + 1))))

AltFrom(self, value, i) ==
  IF i > Len(self.tagged_specs) THEN Ret(Invalid(SpecError(value, self)))
  ELSE LET tag == self.tagged_specs[i][1]
           spec == self.tagged_specs[i][2]
           c == Call(ConformOf(spec), value)
           res == map(c.val, PairWith(tag))
           ok == is_valid(res.val)
       IN AndThen(c, AndThen(res, AndThen(ok,
            IF ok.val.v THEN Ret(res.val)
            ELSE AltFrom(self, value, i + 1))))

Alt_conform(self, value) == AltFrom(self, value, 1)

\* any(spec.validate(value) for (_, spec) in ...): stops at the first True
RECURSIVE AnyFrom(_, _, _)
AnyFrom(tagged_specs, i, value) ==
  IF i > Len(tagged_specs) THEN Ret(PyBool(FALSE))
  ELSE LET b == CallValidate(tagged_specs[i][2], value)
       IN AndThen(b, IF b.val.v THEN Ret(PyBool(TRUE))
                     ELSE AnyFrom(tagged_specs, i + 1, value))

Alt_validate(self, value) == AnyFrom(self.tagged_specs, 1, value)

(***************************************************************************)
(* class Chain                                                             *)
(***************************************************************************)
\* ft.reduce(lambda acc, spec: acc.then(spec.conform), specs, acc)
RECURSIVE reduce(_, _, _)
\* A reduce that conforms with every stage, whatever the one before returned.
reduce_calls_every_stage(specs, i, acc) ==
  IF i > Len(specs) THEN Ret(acc)
  ELSE LET next == Call(ConformOf(specs[i]), acc.v[1])
       IN AndThen(next, reduce(specs, i + 1, next.val))

reduce(specs, i, acc) ==
  IF i > Len(specs) THEN Ret(acc)
  ELSE LET next == then(acc, ConformOf(specs[i]))
       IN AndThen(next, reduce(specs, i + 1, next.val))

Chain_conform(self, value) == reduce(self.specs, 1, Valid(value))

Chain_validate(self, value) ==
  LET res == Chain_conform(self, value)
  IN AndThen(res, is_valid(res.val))

(***************************************************************************)
(* class Keys                                                              *)
(***************************************************************************)
\* A strict check that allows the required keys only.
Keys_validate_ignores_optional(self, value) ==
  LET keys == KeysOf(value)
  IN AndThen(keys, Ret(PyBool(
       /\ self.required \subseteq keys.val
       /\ (~self.strict \/ keys.val \subseteq self.required))))

Keys_validate(self, value) ==
  LET keys == KeysOf(value)
  IN AndThen(keys, Ret(PyBool(
       /\ self.required \subseteq keys.val
       /\ (~self.strict \/
           keys.val \subseteq (self.required \cup self.optional)))))

Keys_conform(self, value) ==
  LET b == Keys_validate(self, value)
  IN AndThen(b, IF b.val.v THEN Ret(Valid(value))
                ELSE Ret(Invalid(SpecError(value, self))))

(***************************************************************************)
(* class Key                                                               *)
(***************************************************************************)
\* A Key that reports the child's failure as its own.
Key_conform_rewraps(self, value) ==
  LET k == GetItem(value, self.key)
      c == Call(ConformOf(self.spec), k.val)
  IN IF k.raised /\ k.val = Exc("KeyError")
     THEN Ret(Valid(PyTuple(<<self.key, self.default>>)))
     ELSE AndThen(k, AndThen(c,
            IF c.val.k = "Valid" THEN map(c.val, PairWith(self.key))
            ELSE Ret(Invalid(SpecError(value, self)))))

Key_conform(self, value) ==
  LET k == GetItem(value, self.key)
      c == Call(ConformOf(self.spec), k.val)
  IN IF k.raised /\ k.val = Exc("KeyError")
     THEN Ret(Valid(PyTuple(<<self.key, self.default>>)))
     ELSE AndThen(k, AndThen(c, map(c.val, PairWith(self.key))))

Key_validate(self, value) ==
  LET has == Contains(value, self.key)
      k == GetItem(value, self.key)
  IN AndThen(has, IF ~has.val.v THEN Ret(PyBool(TRUE))
                  ELSE AndThen(k, CallValidate(self.spec, k.val)))

(***************************************************************************)
(* Method dispatch on the class of the node.                               *)
(***************************************************************************)
conform(spec, value) ==
  CASE spec.type \in {"Predicate", "Member", "Type", "All"} ->
         Predicate_conform(spec, value)
    [] spec.type = "Alt" -> Alt_conform(spec, value)
    [] spec.type = "Chain" -> Chain_conform(spec, value)
    [] spec.type = "Keys" -> Keys_conform(spec, value)
    [] spec.type = "Key" -> Key_conform(spec, value)

validate(spec, value) ==
  CASE spec.type \in {"Predicate", "Member", "Type", "All"} ->
         Predicate_validate(spec, value)
    [] spec.type = "Alt" -> Alt_validate(spec, value)
    [] spec.type = "Chain" -> Chain_validate(spec, value)
    [] spec.type = "Keys" -> Keys_validate(spec, value)
    [] spec.type = "Key" -> Key_validate(spec, value)

(***************************************************************************)
(* The inputs a caller may hand to the operations.                         *)
(***************************************************************************)
SeqsUpTo(S, n) == UNION {[1..m -> S] : m \in 0..n}

Atoms == {PyInt(n) : n \in 0..MaxInt}
PyKeys == {PyInt(0), PyInt(1)}
Dicts == {PyDict(f) : f \in UNION {[D -> Atoms] : D \in SUBSET PyKeys}}
Lists == {PyList(s) : s \in SeqsUpTo(Atoms, MaxListLen)}
Values == Atoms \cup {PyNone} \cup Dicts \cup Lists

Results == {Valid(x) : x \in Atoms} \cup {Invalid(e) : e \in Atoms}

MapFns == {Fn("identity"), Fn("succ"), Fn("twice")}
Composes == {Compose(g, f) : g \in MapFns, f \in MapFns}
BindFns == {Fn("ok"), Fn("ok_succ"), Fn("fail")}

TagNames == <<"a", "b", "c", "d", "e", "f">>
Tagged(specs) == [i \in 1..Len(specs) |-> <<PyStr(TagNames[i]), specs[i]>>]

LeafSpecs ==
  {Predicate("is_zero"), Member({PyInt(0)}), Type("int"),
   Keys({PyInt(0)}, {}, TRUE)}

\* The specification trees of exactly n nodes whose combinators have at
\* least one child, and the sequences of l such trees of m nodes in all.
RECURSIVE SpecsOfSize(_)
RECURSIVE Forests(_, _)
Forests(m, l) ==
  IF l = 0 THEN (IF m = 0 THEN {<<>>} ELSE {})
  ELSE UNION {{<<t>> \o rest : t \in SpecsOfSize(j),
                               rest \in Forests(m - j, l - 1)} : j \in 1..m}

SpecsOfSize(n) ==
  IF n <= 1 THEN (IF n = 1 THEN LeafSpecs ELSE {})
  ELSE LET children == UNION {Forests(n - 1, l) : l \in 1..(n - 1)}
       IN {Chain(c) : c \in children}
          \cup {Alt(Tagged(c)) : c \in children}
          \cup {All(c) : c \in children}
          \cup {Key(key, spec, PyNone) : key \in PyKeys,
                                         spec \in SpecsOfSize(n - 1)}

SpecTrees == UNION {SpecsOfSize(n) : n \in 1..MaxNodes}

\* The combinators without children.
EmptySpecs == {Chain(<<>>), Alt(<<>>), All(<<>>)}

\* Every configuration of Keys over the keys of the model.
KeysSpecs ==
  {Keys(r, o, strict) : r \in SUBSET PyKeys, o \in SUBSET PyKeys,
                        strict \in BOOLEAN}

Specs == SpecTrees \cup EmptySpecs \cup KeysSpecs

Inputs ==
  [op : {"map"}, self : Results, f : MapFns \cup Composes]
  \cup [op : {"then", "catch"}, self : Results, f : BindFns]
  \cup [op : {"ap"},
        self : {Valid(f) : f \in MapFns} \cup {Invalid(e) : e \in Lists},
        other : Results \cup {Invalid(e) : e \in Lists}]
  \cup [op : {"throw"}, self : Results, f : {Fn("identity")}]
  \cup [op : {"collect"}, validated : SeqsUpTo(Results, MaxLen)]
  \cup [op : {"conform", "validate"}, spec : Specs, value : Values]

(***************************************************************************)
(* The caller: one call of one operation on one input.                     *)
(***************************************************************************)
Init ==
  /\ pc = "call"
  /\ inp \in Inputs
  /\ out = NoOutcome

Return(o) ==
  /\ out' = o
  /\ pc' = "done"
  /\ UNCHANGED inp

Map == pc = "call" /\ inp.op = "map" /\ Return(map(inp.self, inp.f))

Then == pc = "call" /\ inp.op = "then" /\ Return(then(inp.self, inp.f))

Catch == pc = "call" /\ inp.op = "catch" /\ Return(catch(inp.self, inp.f))

Ap == pc = "call" /\ inp.op = "ap" /\ Return(ap(inp.self, inp.other))

Throw == pc = "call" /\ inp.op = "throw" /\ Return(throw(inp.self, inp.f))

Collect == pc = "call" /\ inp.op = "collect" /\ Return(collect(inp.validated))

Conform ==
  pc = "call" /\ inp.op = "conform" /\ Return(conform(inp.spec, inp.value))

Validate ==
  pc = "call" /\ inp.op = "validate" /\ Return(validate(inp.spec, inp.value))

Next ==
  \/ Map
  \/ Then
  \/ Catch
  \/ Ap
  \/ Throw
  \/ Collect
  \/ Conform
  \/ Validate

Spec == Init /\ [][Next]_vars

(***************************************************************************)
(* Properties.                                                             *)
(***************************************************************************)
Done(op) == pc = "done" /\ inp.op = op

\* The calls of a child specification's conform that the operation made.
ConformCalls == SelectSeq(out.calls, LAMBDA c : c.fn.k = "bound_conform")

Returned(c) == ~c.raised

\* C1: Invalid(e1).ap(Invalid(e2)) returns Invalid(e1 + e2), self's payload
\* first and other's second; Invalid(e1).ap(Valid(x)) returns self.
C1_ApAccumulatesBoth ==
  (Done("ap") /\ inp.self.k = "Invalid") =>
    LET e1 == inp.self.v[1]
        e2 == inp.other.v[1]
    IN IF inp.other.k = "Invalid"
       THEN Returned(PyAdd(e1, e2)) =>
              /\ Returned(out)
              /\ out.val = Invalid(PyAdd(e1, e2).val)
       ELSE Returned(out) /\ out.val = inp.self

\* C2: whenever validate(value) and conform(value) both return,
\* validate(value) is true exactly when conform(value).is_valid() is.
C2_ValidateAgreesWithConform ==
  (Done("validate") /\ Returned(out)) =>
    LET c == conform(inp.spec, inp.value)
    IN Returned(c) => out.val = is_valid(c.val).val

\* The elements of kind "Valid" or "Invalid" of a sequence of results have
\* these payloads, in order.
RECURSIVE PayloadsOfKind(_, _)
PayloadsOfKind(rs, kind) ==
  IF rs = <<>> THEN <<>>
  ELSE (IF Head(rs).k = kind THEN <<Head(rs).v[1]>> ELSE <<>>)
       \o PayloadsOfKind(Tail(rs), kind)

\* C3: collect(s) returns Invalid of the payloads of the Invalid elements
\* of s, in order, if there is one, and Valid of all the payloads of s, in
\* order, otherwise.
C3_CollectAllOrNothing ==
  Done("collect") =>
    LET s == inp.validated
    IN /\ Returned(out)
       /\ IF \E i \in 1..Len(s) : s[i].k = "Invalid"
          THEN out.val = Invalid(PyList(PayloadsOfKind(s, "Invalid")))
          ELSE out.val = Valid(PyList([i \in 1..Len(s) |-> s[i].v[1]]))

C3_Witness ==
  /\ Done("collect")
  /\ Len(inp.validated) = 3
  /\ inp.validated[1].k = "Valid"
  /\ inp.validated[2].k = "Invalid"
  /\ inp.validated[3].k = "Invalid"
  /\ inp.validated[2] # inp.validated[3]
  /\ inp.validated[1].v # inp.validated[2].v
  /\ out.val.k = "Invalid"

\* C4: Chain.conform calls its stages left to right, the first on the
\* value and each next one on the payload the one before conformed to; it
\* stops calling at the first stage that does not return Valid; its result
\* is what the last stage called returned, and Valid(value) when the chain
\* has no stage.
C4_ChainThreadsAndHalts ==
  (Done("conform") /\ inp.spec.type = "Chain") =>
    LET stages == inp.spec.specs
        cs == ConformCalls
        n == Len(cs)
    IN /\ n <= Len(stages)
       /\ \A i \in 1..n :
            /\ cs[i].fn.spec = stages[i]
            /\ cs[i].arg = (IF i = 1 THEN inp.value ELSE cs[i - 1].res.v[1])
            /\ i < n => (Returned(cs[i]) /\ cs[i].res.k = "Valid")
       /\ IF n = 0
          THEN Len(stages) = 0 /\ Returned(out) /\ out.val = Valid(inp.value)
          ELSE /\ out.raised = cs[n].raised
               /\ out.val = cs[n].res
               /\ n < Len(stages) => (cs[n].raised \/ cs[n].res.k = "Invalid")

C4_Witness ==
  /\ Done("conform")
  /\ inp.spec.type = "Chain"
  /\ Len(inp.spec.specs) = 2
  /\ Len(ConformCalls) = 2
  /\ ConformCalls[2].arg # inp.value
  /\ out.val.k = "Invalid"

\* C5: Alt.conform tries its branches in order on the value and stops at
\* the first that conforms, returning Valid((tag, x)) with that branch's
\* tag; when no branch conforms it returns Invalid(SpecError(value, self)).
C5_AltFirstMatch ==
  (Done("conform") /\ inp.spec.type = "Alt") =>
    LET ts == inp.spec.tagged_specs
        cs == ConformCalls
        n == Len(cs)
    IN /\ n <= Len(ts)
       /\ \A i \in 1..n :
            /\ cs[i].fn.spec = ts[i][2]
            /\ cs[i].arg = inp.value
            /\ i < n => (Returned(cs[i]) /\ cs[i].res.k = "Invalid")
       /\ out.raised => (n > 0 /\ cs[n].raised /\ out.val = cs[n].res)
       /\ Returned(out) =>
            IF n > 0 /\ cs[n].res.k = "Valid"
            THEN out.val = Valid(PyTuple(<<ts[n][1], cs[n].res.v[1]>>))
            ELSE /\ n = Len(ts)
                 /\ out.val = Invalid(SpecError(inp.value, inp.spec))

C5_Witness ==
  /\ Done("conform")
  /\ inp.spec.type = "Alt"
  /\ Len(inp.spec.tagged_specs) = 3
  /\ Len(ConformCalls) = 2
  /\ out.val = Valid(PyTuple(<<PyStr("b"), inp.value>>))

\* C6: on a mapping, Key.conform returns Valid((key, default)) without
\* consulting the child spec when the key is absent; when it is present
\* it conforms the field's value with the child spec and returns
\* Valid((key, x)) for the child's Valid(x) and the child's own Invalid
\* unchanged.
C6_KeyConform ==
  (Done("conform") /\ inp.spec.type = "Key" /\ inp.value.k = "dict") =>
    LET key == inp.spec.key
        m == inp.value.v
        cs == ConformCalls
    IN IF key \notin DOMAIN m
       THEN /\ cs = <<>>
            /\ Returned(out)
            /\ out.val = Valid(PyTuple(<<key, inp.spec.default>>))
       ELSE /\ Len(cs) = 1
            /\ cs[1].fn.spec = inp.spec.spec
            /\ cs[1].arg = m[key]
            /\ out.raised = cs[1].raised
            /\ (Returned(cs[1]) /\ cs[1].res.k = "Valid") =>
                 out.val = Valid(PyTuple(<<key, cs[1].res.v[1]>>))
            /\ (Returned(cs[1]) /\ cs[1].res.k = "Invalid") =>
                 out.val = cs[1].res

C6_Witness ==
  /\ Done("conform")
  /\ inp.spec.type = "Key"
  /\ inp.value.k = "dict"
  /\ inp.spec.key \in DOMAIN inp.value.v
  /\ out.val.k = "Invalid"
  /\ out.val.v[1].spec = inp.spec.spec
  /\ out.val.v[1].value = inp.value.v[inp.spec.key]

\* C7: on a mapping with key set K, Keys.validate is true exactly when
\* every required key is in K and, if strict, every key of K is required
\* or optional; Keys.conform returns Valid(m) then, and
\* Invalid(SpecError(m, self)) otherwise.
C7_KeysChecksKeySet ==
  (pc = "done" /\ inp.op \in {"conform", "validate"}
     /\ inp.spec.type = "Keys" /\ inp.value.k = "dict") =>
    LET K == DOMAIN inp.value.v
        ok == /\ \A r \in inp.spec.required : r \in K
              /\ inp.spec.strict =>
                   \A x \in K : x \in inp.spec.required
                                \/ x \in inp.spec.optional
    IN /\ Returned(out)
       /\ out.val = IF inp.op = "validate" THEN PyBool(ok)
                    ELSE IF ok THEN Valid(inp.value)
                    ELSE Invalid(SpecError(inp.value, inp.spec))

C7_Witness ==
  /\ Done("validate")
  /\ inp.spec.type = "Keys"
  /\ inp.value.k = "dict"
  /\ inp.spec.strict
  /\ inp.spec.required # {}
  /\ inp.spec.required \subseteq DOMAIN inp.value.v
  /\ inp.spec.optional # {}
  /\ ~(DOMAIN inp.value.v \subseteq inp.spec.required \cup inp.spec.optional)
  /\ out.val = PyBool(FALSE)

\* C8: conform and validate never raise, whatever the value; only throw
\* applied to an Invalid raises.
C8_OnlyThrowRaises ==
  (pc = "done" /\ out.raised) => (inp.op = "throw" /\ inp.self.k = "Invalid")

\* f(x) for the caller's functions and their compositions
Applied(f, x) ==
  IF f.k = "compose" THEN FnBody(f.g.v, FnBody(f.f.v, x)) ELSE FnBody(f.v, x)

\* C9: map(identity) returns an equal result, map(f) then map(g) equals
\* map of the composition x -> g(f(x)), Invalid(e).map(f) is Invalid(e)
\* and Valid(x).map(f) is Valid(f(x)).
C9_MapFunctorLaws ==
  Done("map") =>
    /\ Returned(out)
    /\ inp.self.k = "Invalid" => out.val = inp.self
    /\ inp.self.k = "Valid" =>
         out.val = Valid(Applied(inp.f, inp.self.v[1]))
    /\ inp.f = Fn("identity") => out.val = inp.self
    /\ inp.f.k = "compose" =>
         out.val = map(map(inp.self, inp.f.f).val, inp.f.g).val

C9_Witness ==
  /\ Done("map")
  /\ inp.f = Compose(Fn("twice"), Fn("succ"))
  /\ inp.self = Valid(PyInt(1))
  /\ out.val = Valid(PyInt(4))

\* C10: Valid(x).then(f) returns f(x) and Invalid(e).then(f) returns the
\* same Invalid(e) without calling f; Invalid(e).catch(f) returns f(e) and
\* Valid(x).catch(f) returns the same Valid(x) without calling f.
C10_ThenCatchShortCircuit ==
  (pc = "done" /\ inp.op \in {"then", "catch"}) =>
    LET applies == (inp.op = "then") <=> (inp.self.k = "Valid")
        fcalls == SelectSeq(out.calls, LAMBDA c : c.fn = inp.f)
    IN /\ Returned(out)
       /\ applies =>
            /\ out.val = FnBody(inp.f.v, inp.self.v[1])
            /\ Len(fcalls) = 1
            /\ fcalls[1].arg = inp.self.v[1]
       /\ ~applies => (out.val = inp.self /\ fcalls = <<>>)

C10_Witness ==
  /\ Done("then")
  /\ inp.self = Invalid(PyInt(1))
  /\ inp.f = Fn("ok")
  /\ out.val = Invalid(PyInt(1))
  /\ \A i \in 1..Len(out.calls) : out.calls[i].fn # inp.f

====
